---------------------------- MODULE Spec2Model ----------------------------
(***************************************************************************)
(* A model of the rules_tcl lint / format-check action runners:            *)
(*   src/tcl/private/linting/format_checker.py  (run_format,               *)
(*       copy_to_temp_preserving_paths, generate_diff, main)               *)
(*   src/tcl/private/linting/linter.py          (run_lint, main)           *)
(*                                                                         *)
(* Paths are pathlib.PurePosixPath values: a root ("" for a relative path, *)
(* "/" or "//") and a sequence of segments.  The file system is a function *)
(* from physical locations (absolute, ".."-free segment sequences) to the  *)
(* text of the regular file stored there.  Texts are sequences of          *)
(* characters, so that str.splitlines is computed and not assumed.         *)
(***************************************************************************)
EXTENDS Integers, Sequences, FiniteSets, TLC

VARIABLES
    pc,             \* position of the running entry point
    srcs,           \* args.srcs: the --src paths, in command-line order
    marker_arg,     \* TRUE iff --marker was given
    fs,             \* file system: physical location -> text of the regular file
    fs0,            \* the file system when the run started (history)
    fmt,            \* the external formatter: text -> what it does to that text
    tool_fault,     \* TRUE once the tool hit a fault that outlasts one invocation
    check_res,      \* (check_code, check_output) of run_format(["--check"])
    fmt_res,        \* (fmt_code, fmt_output) of run_format(["--in-place"])
    lint_res,       \* (lint_code, lint_output) of run_lint
    temp_exists,    \* TRUE while the TemporaryDirectory of main exists
    path_map,       \* the dict returned by copy_to_temp_preserving_paths
    written,        \* physical locations written since the run started (history)
    log,            \* calls made and lines printed to sys.stderr, in order
    exit_code,      \* exit status of the process, Running while it runs
    marker_written, \* TRUE iff args.marker.write_bytes(b"") has run
    tool_sig        \* Tool Invoker model: how the tool finished (history)

vars == <<pc, srcs, marker_arg, fs, fs0, fmt, tool_fault, check_res, fmt_res, lint_res,
          temp_exists, path_map, written, log, exit_code, marker_written,
          tool_sig>>

-----------------------------------------------------------------------------
(* Bounds of the model.                                                    *)

MaxSrcs == 2        \* longest --src list
MaxDepth == 2       \* most segments in a source path (staging specification)
MaxTextLen == 2     \* longest initial file text, in characters

(* Segment names: ".." is the parent link, "tmp" is the name of the         *)
(* directory tempfile creates its directories in, "a" and "x" are ordinary  *)
(* names.  "tmpdir" is the unique name tempfile.TemporaryDirectory picks;   *)
(* no caller-supplied path can contain it.                                  *)
Segs == {"..", "tmp", "a", "x"}
Roots == {"", "/", "//"}
Chars == {"a", "\n"}

SeqsUpTo(S, n) == UNION {[1..k -> S] : k \in 0..n}
NonEmptySeqsUpTo(S, n) == UNION {[1..k -> S] : k \in 1..n}

Range(f) == {f[i] : i \in DOMAIN f}

IsPrefix(s, t) == Len(s) <= Len(t) /\ SubSeq(t, 1, Len(s)) = s
IsProperPrefix(s, t) == Len(s) < Len(t) /\ SubSeq(t, 1, Len(s)) = s

-----------------------------------------------------------------------------
(* pathlib.PurePosixPath                                                    *)

Path(root, parts) == [root |-> root, parts |-> parts]

\* The two locations the run depends on: os.getcwd() and the directory
\* tempfile.TemporaryDirectory() creates (tempfile.gettempdir() / unique name).
Cwd == <<"w">>
TempParent == <<"tmp">>
TempRoot == Path("/", <<"tmp", "tmpdir">>)

\* Path.name
Name(p) == IF Len(p.parts) = 0 THEN "" ELSE p.parts[Len(p.parts)]

\* Path.parent
Parent(p) ==
    IF Len(p.parts) = 0 THEN p
    ELSE Path(p.root, SubSeq(p.parts, 1, Len(p.parts) - 1))

\* Path.__truediv__: an absolute right operand replaces the left one.
Join(base, rel) ==
    IF rel.root # "" THEN rel
    ELSE Path(base.root, base.parts \o rel.parts)

\* Path.parts: the root, when there is one, is the first element.
Parts(p) == IF p.root = "" THEN p.parts ELSE <<p.root>> \o p.parts

\* Path(*parts)
PathOf(parts) ==
    IF Len(parts) > 0 /\ parts[1] \in {"/", "//"}
    THEN Path(parts[1], Tail(parts))
    ELSE Path("", parts)

\* path_parts[-2:]
LastTwo(s) == IF Len(s) <= 2 THEN s ELSE SubSeq(s, Len(s) - 1, Len(s))

\* PurePath.relative_to raises ValueError unless other's parts (root
\* included) are a prefix of self's parts.
CanRelativeTo(p, other) ==
    /\ p.root = other.root
    /\ IsPrefix(other.parts, p.parts)

relative_to(p, other) ==
    Path("", SubSeq(p.parts, Len(other.parts) + 1, Len(p.parts)))

\* The longest common prefix of a non-empty set of segment sequences.
CommonPrefixLen(S) ==
    LET s == CHOOSE t \in S : TRUE
        agree(n) == \A t \in S : Len(t) >= n /\ SubSeq(t, 1, n) = SubSeq(s, 1, n)
    IN  CHOOSE n \in 0..Len(s) : agree(n) /\ (n = Len(s) \/ ~agree(n + 1))

\* posixpath.commonpath raises ValueError when absolute and relative paths
\* are mixed ("//x" starts with the separator, so it is absolute).
CommonPathRaises(ps) ==
    \E i, j \in DOMAIN ps : (ps[i].root = "") # (ps[j].root = "")

\* Path(os.path.commonpath(...)): the separator, when the paths are
\* absolute, and the segments shared by the smallest and the largest path,
\* which are the segments shared by all of them.
commonpath(ps) ==
    LET S == {ps[i].parts : i \in DOMAIN ps}
        n == CommonPrefixLen(S)
    IN  Path(IF ps[1].root = "" THEN "" ELSE "/", SubSeq(ps[1].parts, 1, n))

\* The physical location a path names: a relative path starts at the working
\* directory, ".." steps to the parent (the parent of the root is the root),
\* and "//" names the same root as "/".
RECURSIVE Walk(_, _)
Walk(at, parts) ==
    IF parts = <<>> THEN at
    ELSE Walk(IF Head(parts) = ".."
              THEN (IF at = <<>> THEN at ELSE SubSeq(at, 1, Len(at) - 1))
              ELSE Append(at, Head(parts)),
              Tail(parts))

Resolve(p) == Walk(IF p.root = "" THEN Cwd ELSE <<>>, p.parts)


-----------------------------------------------------------------------------
(* The file system, as the calls of shutil and pathlib see it.              *)

\* Directories that exist whatever the sources are.
BaseDirs == {<<>>, TempParent, Resolve(TempRoot)} \cup {SubSeq(Cwd, 1, n) : n \in 0..Len(Cwd)}

\* A location is a directory when it is one of the base directories or an
\* ancestor of a regular file (mkdir(parents=True) makes the ancestors of
\* every file that is then copied).
IsDir(f, loc) == loc \in BaseDirs \/ \E g \in DOMAIN f : IsProperPrefix(loc, g)

\* Every directory the path walks through can be entered: none is a file.
Traversable(f, p) ==
    \A n \in 0..(Len(p.parts) - 1) :
        Resolve(Path(p.root, SubSeq(p.parts, 1, n))) \notin DOMAIN f

\* The path names a readable regular file.
IsFile(f, p) == Traversable(f, p) /\ Resolve(p) \in DOMAIN f

\* Path.mkdir(parents=True, exist_ok=True) raises when the directory or one
\* of its ancestors exists as a regular file.
MkdirRaises(f, dir) == ~Traversable(f, dir) \/ Resolve(dir) \in DOMAIN f

\* shutil.copy2(src, dst): a directory destination means "into it, under the
\* source's base name".
Copy2Target(f, src, dst) ==
    IF IsDir(f, Resolve(dst)) THEN Append(Resolve(dst), Name(src)) ELSE Resolve(dst)

\* shutil.copy2 raises SameFileError when source and destination are one
\* file, and OSError when the source is no readable file or the destination
\* cannot be opened for writing.
Copy2Raises(f, src, dst) ==
    \/ ~IsFile(f, src)
    \/ ~Traversable(f, dst)
    \/ Copy2Target(f, src, dst) = Resolve(src)
    \/ IsDir(f, Copy2Target(f, src, dst))

\* The file system after a copy that did not raise.
Copy2(f, src, dst) ==
    LET to == Copy2Target(f, src, dst)
    IN  [loc \in (DOMAIN f) \cup {to} |-> IF loc = to THEN f[Resolve(src)] ELSE f[loc]]

-----------------------------------------------------------------------------
(* copy_to_temp_preserving_paths                                            *)

\* path_map[key] = value of a dict that keeps insertion order: a key that is
\* already present keeps its place.
DictSet(m, key, value) ==
    IF \E i \in DOMAIN m : m[i][1] = key
    THEN [i \in DOMAIN m |-> IF m[i][1] = key THEN <<key, value>> ELSE m[i]]
    ELSE Append(m, <<key, value>>)

DictKeys(m) == {m[i][1] : i \in DOMAIN m}
DictGet(m, key) == m[CHOOSE i \in DOMAIN m : m[i][1] = key][2]
DictValues(m) == [i \in DOMAIN m |-> m[i][2]]

\* Lines 166-173: the place of one of several sources under the temporary
\* directory: its path relative to the common prefix, or, when relative_to
\* raises ValueError, its last two parts.
rel_path(src_abs, common_prefix) ==
    IF CanRelativeTo(src_abs, common_prefix)
    THEN relative_to(src_abs, common_prefix)
    ELSE PathOf(LastTwo(Parts(src_abs)))

\* Lines 154-157 and 176: temp_file for one source of the list ps.
temp_file(ps, src_abs, temp_dir) ==
    IF Len(ps) = 1
    THEN Join(temp_dir, Path("", <<Name(src_abs)>>))
    ELSE Join(temp_dir, rel_path(src_abs, commonpath(ps)))

\* Lines 158-160 and 179-183: mkdir the parent, copy, record.  st is the
\* state of the call: the dict built so far, the file system, what was
\* written, the sources copied so far, and whether an exception left the
\* function.
StageOne(st, src_abs, tf) ==
    IF MkdirRaises(st.fs, Parent(tf)) \/ Copy2Raises(st.fs, src_abs, tf)
    THEN [st EXCEPT !.raised = TRUE]
    ELSE [raised   |-> FALSE,
          path_map |-> DictSet(st.path_map, src_abs, tf),
          fs       |-> Copy2(st.fs, src_abs, tf),
          written  |-> st.written \cup {Copy2Target(st.fs, src_abs, tf)},
          copied   |-> Append(st.copied, src_abs)]

RECURSIVE StageLoop(_, _, _, _)
StageLoop(ps, temp_dir, i, st) ==
    IF i > Len(ps) \/ st.raised THEN st
    ELSE StageLoop(ps, temp_dir, i + 1, StageOne(st, ps[i], temp_file(ps, ps[i], temp_dir)))

\* copy_to_temp_preserving_paths(srcs, temp_dir) run on file system f.  The
\* result carries the returned dict (when raised is FALSE) and the file
\* system the call leaves behind, whichever way it ends.
copy_to_temp_preserving_paths(ps, temp_dir, f) ==
    LET st0 == [raised |-> FALSE, path_map |-> <<>>, fs |-> f, written |-> {},
                copied |-> <<>>]
    IN  IF Len(ps) # 1 /\ CommonPathRaises(ps)
        THEN [st0 EXCEPT !.raised = TRUE]
        ELSE StageLoop(ps, temp_dir, 1, st0)

-----------------------------------------------------------------------------
(* Texts, str.splitlines and generate_diff                                  *)

Texts == SeqsUpTo(Chars, MaxTextLen)

\* str.splitlines: the runs of characters between line breaks; a final line
\* break does not open another line.
RECURSIVE SplitFrom(_, _, _, _)
SplitFrom(t, i, cur, acc) ==
    IF i > Len(t) THEN (IF cur = <<>> THEN acc ELSE Append(acc, cur))
    ELSE IF t[i] = "\n" THEN SplitFrom(t, i + 1, <<>>, Append(acc, cur))
    ELSE SplitFrom(t, i + 1, Append(cur, t[i]), acc)

splitlines(t) == SplitFrom(t, 1, <<>>, <<>>)

\* generate_diff raises when read_text does (a path that is no regular file).
DiffRaises(f, original_path, formatted_path) ==
    ~IsFile(f, original_path) \/ ~IsFile(f, formatted_path)

\* generate_diff: difflib.unified_diff yields nothing for equal line
\* sequences, so the joined string is empty exactly then; otherwise it is
\* the header naming the original path and the changed lines.
generate_diff(f, original_path, formatted_path) ==
    LET original_lines  == splitlines(f[Resolve(original_path)])
        formatted_lines == splitlines(f[Resolve(formatted_path)])
    IN  IF original_lines = formatted_lines
        THEN [empty |-> TRUE,  fromfile |-> original_path, old |-> <<>>, new |-> <<>>]
        ELSE [empty |-> FALSE, fromfile |-> original_path,
              old |-> original_lines, new |-> formatted_lines]

-----------------------------------------------------------------------------
(* The external tool (tclfmt / tclint main) as the runners see it           *)

\* A status is what main() returns or what SystemExit carries: an integer,
\* None, or (SystemExit only) a message string.
IntStatus(n) == [kind |-> "int", val |-> n]
NoneStatus == [kind |-> "none", val |-> 0]
StrStatus == [kind |-> "str", val |-> 0]

Codes == {0, 1, 2}
NonZeroCodes == Codes \ {0}

Signal(how, status) == [how |-> how, status |-> status]

\* The tool finished well: main() returned 0 or None, or sys.exit(0), or
\* sys.exit().
OkSignals ==
    {Signal(h, st) : h \in {"return", "exit"}, st \in {IntStatus(0), NoneStatus}}

\* The tool reports a finding with a non-zero integer status.
FindingSignals ==
    {Signal(h, IntStatus(c)) : h \in {"return", "exit"}, c \in NonZeroCodes}

\* The tool failed: a non-zero status, a message given to sys.exit or
\* returned from main(), or an exception that is not SystemExit.
FaultSignals ==
    FindingSignals \cup {Signal("exit", StrStatus), Signal("return", StrStatus),
                         Signal("raise", NoneStatus)}

Signals == OkSignals \cup FaultSignals

\* The exit status of a process that ends with sys.exit(arg): an integer is
\* the status, None is 0, anything else is printed and the status is 1.
ExitStatus(arg) ==
    IF arg.kind = "int" THEN arg.val
    ELSE IF arg.kind = "none" THEN 0 ELSE 1

\* What the formatter does to a text: nothing, add the missing final line
\* break, or rewrite the characters of the lines.
Modes == {"same", "eol", "lines"}

Rewrite(t, mode) ==
    IF mode = "eol"
    THEN (IF t # <<>> /\ t[Len(t)] # "\n" THEN Append(t, "\n") ELSE t)
    ELSE IF mode = "lines"
    THEN [i \in DOMAIN t |-> IF t[i] = "a" THEN "b" ELSE t[i]]
    ELSE t

\* tclfmt --check finds nothing to reformat in the given paths.
Conformant(f, mode, ps) ==
    \A i \in DOMAIN ps : IsFile(f, ps[i]) /\ Rewrite(f[Resolve(ps[i])], mode) = f[Resolve(ps[i])]

\* The regular files tclfmt --in-place rewrites for one path argument: the
\* file, or the files below a directory.
Targets(f, p) ==
    IF Resolve(p) \in DOMAIN f THEN {Resolve(p)}
    ELSE {g \in DOMAIN f : IsProperPrefix(Resolve(p), g)}

\* The file system after tclfmt --in-place has rewritten the first n of its
\* path arguments.
InPlace(f, mode, args, n) ==
    LET hit == UNION {Targets(f, args[i]) : i \in 1..n}
    IN  [loc \in DOMAIN f |-> IF loc \in hit THEN Rewrite(f[loc], mode) ELSE f[loc]]

InPlaceWrites(f, args, n) == UNION {Targets(f, args[i]) : i \in 1..n}

-----------------------------------------------------------------------------
(* The Tool Invoker: run_format and run_lint                                *)

\* Lines 121-127 of format_checker.py: return_code is 0, the returned value
\* when it is not None, or e.code when it is not None.  An exception other
\* than SystemExit leaves run_format.
run_format(sig, output) ==
    IF sig.how = "raise"
    THEN [raised |-> TRUE, code |-> NoneStatus, output |-> <<>>]
    ELSE [raised |-> FALSE,
          code   |-> IF sig.status.kind = "none" THEN IntStatus(0) ELSE sig.status,
          output |-> output]

\* Lines 113-125 of linter.py: as run_format, but the e.code of a SystemExit
\* is converted: an int is kept, None is 0, anything else is 1.
run_lint(sig, output) ==
    IF sig.how = "raise"
    THEN [raised |-> TRUE, code |-> NoneStatus, output |-> <<>>]
    ELSE [raised |-> FALSE,
          code   |-> IF sig.how = "return"
                     THEN (IF sig.status.kind = "none" THEN IntStatus(0) ELSE sig.status)
                     ELSE (IF sig.status.kind = "int" THEN sig.status
                           ELSE IF sig.status.kind = "none" THEN IntStatus(0)
                           ELSE IntStatus(1)),
          output |-> output]

\* `if lint_code:` -- a non-zero integer or a (non-empty) message.
Truthy(code) == code.kind = "str" \/ (code.kind = "int" /\ code.val # 0)

\* Lines 106-108 / linter.py line 101: the argument vector handed to the tool.
tool_args(tool, paths, extra_args) ==
    [tool |-> tool, config |-> "--config", paths |-> paths, extra |-> extra_args]

-----------------------------------------------------------------------------
(* sorted(path_map.values()): paths compare by their parts, strings by      *)
(* code point.                                                              *)

SegOrder == <<"..", "/", "//", "a", "tmp", "tmpdir", "w", "x">>
SegRank(seg) == CHOOSE i \in DOMAIN SegOrder : SegOrder[i] = seg

RECURSIVE PartsLess(_, _)
PartsLess(s, t) ==
    IF s = <<>> THEN t # <<>>
    ELSE IF t = <<>> THEN FALSE
    ELSE IF Head(s) = Head(t) THEN PartsLess(Tail(s), Tail(t))
    ELSE SegRank(Head(s)) < SegRank(Head(t))

PathLess(p, q) == PartsLess(Parts(p), Parts(q))

RECURSIVE Insert(_, _)
Insert(sorted, p) ==
    IF sorted = <<>> THEN <<p>>
    ELSE IF PathLess(p, Head(sorted)) THEN <<p>> \o sorted
    ELSE <<Head(sorted)>> \o Insert(Tail(sorted), p)

RECURSIVE Sorted(_)
Sorted(ps) == IF ps = <<>> THEN <<>> ELSE Insert(Sorted(Tail(ps)), Head(ps))

-----------------------------------------------------------------------------
(* State shared by the entry points                                         *)

\* exit_code while the process runs, and once it has ended with status n.
Running == NoneStatus
Exited(n) == IntStatus(n)
NoResult == [raised |-> FALSE, code |-> NoneStatus, output |-> <<>>]
Event(ev, arg) == [ev |-> ev, arg |-> arg]

\* The sources of the pipeline runs: <root><dir>/x for every root and every
\* directory name, so that relative, absolute, "//"-rooted, parent-linked and
\* temp-parent paths all occur, alone and in pairs.
MainPaths == {Path(r, <<d, "x">>) : r \in Roots, d \in Segs}

\* The sources of the staging runs: every path of up to MaxDepth segments.
StagePaths == {Path(r, parts) : r \in Roots, parts \in NonEmptySeqsUpTo(Segs, MaxDepth)}

SrcLists(P) == NonEmptySeqsUpTo(P, MaxSrcs)

\* The two ordinary sources of the runs that vary the file texts.
TextSrcs == <<Path("", <<"a", "x">>), Path("", <<"tmp", "x">>)>>

\* Where a list of sources can keep regular files: the locations its paths
\* name, but no directory (a location above another one, a base directory,
\* a path ending in "..").
FileLocs(ps) ==
    LET locs == {Resolve(ps[i]) : i \in {j \in DOMAIN ps : Name(ps[j]) # ".."}}
    IN  {l \in locs : /\ l \notin BaseDirs
                      /\ ~IsPrefix(Resolve(TempRoot), l)
                      /\ ~\E m \in locs : IsProperPrefix(l, m)}

Locs(ps) == {Resolve(ps[i]) : i \in DOMAIN ps}

\* rmtree of the temporary directory.
Cleanup(f) ==
    LET keep == {g \in DOMAIN f : ~IsPrefix(Resolve(TempRoot), g)}
    IN  [loc \in keep |-> f[loc]]

InitCommon ==
    /\ fs0 = fs
    /\ tool_fault = FALSE
    /\ check_res = NoResult
    /\ fmt_res = NoResult
    /\ lint_res = NoResult
    /\ path_map = <<>>
    /\ written = {}
    /\ log = <<>>
    /\ exit_code = Running
    /\ marker_written = FALSE
    /\ tool_sig = Signal("none", NoneStatus)

\* Runs that vary the paths: every source that can be a file is one.
InitPaths ==
    /\ srcs \in SrcLists(MainPaths)
    /\ fs = [loc \in FileLocs(srcs) |-> <<"a">>]
    /\ fmt \in Modes
    /\ marker_arg \in BOOLEAN
    /\ pc = "start"
    /\ temp_exists = FALSE
    /\ InitCommon

\* Runs that vary the texts: one or two ordinary sources, each missing or
\* holding any text.
InitTexts ==
    /\ srcs \in {SubSeq(TextSrcs, 1, 1), TextSrcs}
    /\ \E S \in SUBSET Locs(srcs) : fs \in [S -> Texts]
    /\ fmt \in Modes
    /\ marker_arg \in BOOLEAN
    /\ pc = "start"
    /\ temp_exists = FALSE
    /\ InitCommon

Init == InitPaths \/ InitTexts

-----------------------------------------------------------------------------
(* format_checker.main                                                      *)

\* SysExit as it would be if the temporary directory were made with mkdtemp
\* and removed only after the loop: sys.exit leaves it behind.
SysExit_LeavesTempDir(arg, events, f) ==
    /\ pc' = "done"
    /\ exit_code' = Exited(ExitStatus(arg))
    /\ log' = log \o events
              \o (IF arg.kind = "str" THEN <<Event("print_exit_message", <<>>)>> ELSE <<>>)
    /\ fs' = f
    /\ temp_exists' = temp_exists

\* The process ends: sys.exit(arg) (a message argument is printed and the
\* status is 1), after the with block, if entered, removed its directory.
SysExit(arg, events, f) ==
    /\ pc' = "done"
    /\ exit_code' = Exited(ExitStatus(arg))
    /\ log' = log \o events
              \o (IF temp_exists THEN <<Event("rmtree", <<>>)>> ELSE <<>>)
              \o (IF arg.kind = "str" THEN <<Event("print_exit_message", <<>>)>> ELSE <<>>)
    /\ fs' = (IF temp_exists THEN Cleanup(f) ELSE f)
    /\ temp_exists' = FALSE

\* An exception nothing catches: the with block, if entered, removes its
\* directory, the interpreter prints the traceback and exits with status 1.
Uncaught(events, f) ==
    /\ pc' = "done"
    /\ exit_code' = Exited(1)
    /\ log' = log \o events
              \o (IF temp_exists THEN <<Event("rmtree", <<>>)>> ELSE <<>>)
              \o <<Event("traceback", <<>>)>>
    /\ fs' = (IF temp_exists THEN Cleanup(f) ELSE f)
    /\ temp_exists' = FALSE

\* Lines 221-225: run_format(args.config, args.srcs, ["--check"]).  The tool
\* either hits a fault (a non-zero status or an exception, also when a source
\* cannot be read), or reports whether the sources are formatted.
CheckRun ==
    /\ pc = "start"
    /\ \E sig \in Signals, fault \in BOOLEAN :
        /\ IF fault THEN sig \in FaultSignals
           ELSE /\ \A i \in DOMAIN srcs : IsFile(fs, srcs[i])
                /\ IF Conformant(fs, fmt, srcs) THEN sig \in OkSignals
                   ELSE sig \in FindingSignals
        /\ tool_fault' = fault
        /\ LET res  == run_format(sig, "check_output")
               call == Event("tool", tool_args("tclfmt", srcs, "--check"))
           IN  IF res.raised
               THEN /\ Uncaught(<<call>>, fs)
                    /\ UNCHANGED check_res
               ELSE /\ pc' = "checked"
                    /\ check_res' = res
                    /\ log' = Append(log, call)
                    /\ UNCHANGED <<fs, temp_exists, exit_code>>
    /\ UNCHANGED <<srcs, marker_arg, fs0, fmt, fmt_res, path_map, written,
                   marker_written, lint_res, tool_sig>>

\* Lines 228-233: the check passed: touch the marker, if asked to, and exit 0.
CheckPassed ==
    /\ pc = "checked"
    /\ check_res.code = IntStatus(0)
    /\ marker_written' = marker_arg
    /\ SysExit(IntStatus(0),
               IF marker_arg THEN <<Event("write_marker", <<>>)>> ELSE <<>>, fs)
    /\ UNCHANGED <<srcs, marker_arg, fs0, fmt, tool_fault, check_res, fmt_res,
                   path_map, written, lint_res, tool_sig>>

\* CheckFailed as it would be if the check output were not printed before
\* the staging starts.
CheckFailed_StagesFirst ==
    /\ pc = "checked"
    /\ check_res.code # IntStatus(0)
    /\ pc' = "staging"
    /\ log' = log \o <<Event("mkdtemp", <<>>)>>
    /\ temp_exists' = TRUE
    /\ UNCHANGED <<srcs, marker_arg, fs, fs0, fmt, tool_fault, check_res, fmt_res,
                   path_map, written, exit_code, marker_written, lint_res, tool_sig>>

\* Lines 235-240: the check failed: print its output, then enter the with
\* block, which creates the temporary directory.
CheckFailed ==
    /\ pc = "checked"
    /\ check_res.code # IntStatus(0)
    /\ pc' = "staging"
    /\ log' = log \o <<Event("print_check_output", check_res.output),
                       Event("mkdtemp", <<>>)>>
    /\ temp_exists' = TRUE
    /\ UNCHANGED <<srcs, marker_arg, fs, fs0, fmt, tool_fault, check_res, fmt_res,
                   path_map, written, exit_code, marker_written, lint_res, tool_sig>>

\* Line 243: path_map = copy_to_temp_preserving_paths(args.srcs, temp_path).
CopyEvents(copied) == [i \in DOMAIN copied |-> Event("copy", copied[i])]

Stage ==
    /\ pc = "staging"
    /\ LET st == copy_to_temp_preserving_paths(srcs, TempRoot, fs)
       IN  /\ written' = written \cup st.written
           /\ IF st.raised
              THEN /\ Uncaught(CopyEvents(st.copied), st.fs)
                   /\ UNCHANGED path_map
              ELSE /\ pc' = "staged"
                   /\ path_map' = st.path_map
                   /\ fs' = st.fs
                   /\ log' = log \o CopyEvents(st.copied)
                   /\ UNCHANGED <<temp_exists, exit_code>>
    /\ UNCHANGED <<srcs, marker_arg, fs0, fmt, tool_fault, check_res, fmt_res,
                   marker_written, lint_res, tool_sig>>

\* Lines 246-253: run_format(args.config, sorted(path_map.values()),
\* ["--in-place"]).  The tool rewrites its arguments in order; it rewrites
\* all of them when it ends well, and any number of them when it fails.
InPlaceRun ==
    /\ pc = "staged"
    /\ LET temp_srcs == Sorted(DictValues(path_map))
           call == Event("tool", tool_args("tclfmt", temp_srcs, "--in-place"))
       IN  \E sig \in Signals, n \in 0..Len(temp_srcs) :
            /\ IF sig \in OkSignals THEN ~tool_fault /\ n = Len(temp_srcs)
               ELSE sig \in FaultSignals
            /\ written' = written \cup InPlaceWrites(fs, temp_srcs, n)
            /\ LET res == run_format(sig, "fmt_output")
                   f   == InPlace(fs, fmt, temp_srcs, n)
               IN  IF res.raised
                   THEN /\ Uncaught(<<call>>, f)
                        /\ UNCHANGED fmt_res
                   ELSE /\ pc' = "formatted"
                        /\ fmt_res' = res
                        /\ fs' = f
                        /\ log' = Append(log, call)
                        /\ UNCHANGED <<temp_exists, exit_code>>
    /\ UNCHANGED <<srcs, marker_arg, fs0, fmt, tool_fault, check_res, path_map,
                   marker_written, lint_res, tool_sig>>

\* InPlaceFailed as it would be if it ended with the fixed status 1.
InPlaceFailed_ExitsOne ==
    /\ pc = "formatted"
    /\ fmt_res.code # IntStatus(0)
    /\ SysExit(IntStatus(1), <<Event("print_fmt_output", fmt_res.output)>>, fs)
    /\ UNCHANGED <<srcs, marker_arg, fs0, fmt, tool_fault, check_res, fmt_res,
                   path_map, written, marker_written, lint_res, tool_sig>>

\* Lines 255-257: the in-place run failed: print its output and exit with
\* its status.
InPlaceFailed ==
    /\ pc = "formatted"
    /\ fmt_res.code # IntStatus(0)
    /\ SysExit(fmt_res.code, <<Event("print_fmt_output", fmt_res.output)>>, fs)
    /\ UNCHANGED <<srcs, marker_arg, fs0, fmt, tool_fault, check_res, fmt_res,
                   path_map, written, marker_written, lint_res, tool_sig>>

\* Lines 260-263: generate_diff for every item of path_map, in the dict's
\* order; a non-empty diff is printed.  The result is the events of the loop
\* and whether generate_diff raised.
RECURSIVE DiffLoop(_, _, _, _)
DiffLoop(f, m, i, acc) ==
    IF i > Len(m) THEN [raised |-> FALSE, events |-> acc]
    ELSE LET call == Event("generate_diff", m[i][1])
         IN  IF DiffRaises(f, m[i][1], m[i][2])
             THEN [raised |-> TRUE, events |-> Append(acc, call)]
             ELSE LET diff == generate_diff(f, m[i][1], m[i][2])
                  IN  DiffLoop(f, m, i + 1,
                               IF diff.empty THEN Append(acc, call)
                               ELSE acc \o <<call, Event("print_diff", diff)>>)

\* Lines 259-266: the in-place run succeeded: print the diffs, leave the with
\* block and exit 1.
Diffs ==
    /\ pc = "formatted"
    /\ fmt_res.code = IntStatus(0)
    /\ LET loop == DiffLoop(fs, path_map, 1, <<>>)
       IN  IF loop.raised
           THEN Uncaught(loop.events, fs)
           ELSE SysExit(IntStatus(1), loop.events, fs)
    /\ UNCHANGED <<srcs, marker_arg, fs0, fmt, tool_fault, check_res, fmt_res,
                   path_map, written, marker_written, lint_res, tool_sig>>

Next == CheckRun \/ CheckPassed \/ CheckFailed \/ Stage \/ InPlaceRun
        \/ InPlaceFailed \/ Diffs

Spec == Init /\ [][Next]_vars

-----------------------------------------------------------------------------
(* Claims about format_checker.main                                         *)

ToolCalls(flag) == {i \in DOMAIN log : log[i].ev = "tool" /\ log[i].arg.extra = flag}
Events(ev) == {i \in DOMAIN log : log[i].ev = ev}

\* A path lies inside the temporary directory: below it, by its segments
\* and by the location it names.
InsideTemp(p) ==
    /\ p.root = TempRoot.root
    /\ IsProperPrefix(TempRoot.parts, p.parts)
    /\ IsProperPrefix(Resolve(TempRoot), Resolve(p))

\* C1: in a format-check run no caller-supplied source file is ever written:
\* every source keeps the text it had when the run started, nothing writes
\* to the location of a source, and every path handed to the --in-place
\* invocation is a staged copy under the temporary root.
C1_SourcesNeverWritten ==
    /\ \A loc \in DOMAIN fs0 : loc \in DOMAIN fs /\ fs[loc] = fs0[loc]
    /\ written \cap Locs(srcs) = {}
    /\ \A i \in ToolCalls("--in-place") :
          \A j \in DOMAIN log[i].arg.paths : InsideTemp(log[i].arg.paths[j])

CheckReturned == check_res.output = "check_output"
InPlaceReturned == fmt_res.output = "fmt_output"
CheckFailedStatus == CheckReturned /\ check_res.code # IntStatus(0)

\* C2: the outcome follows the two tool statuses: check 0 gives exit 0, the
\* marker when asked for, and neither staging nor an in-place run; check
\* non-zero and in-place 0 gives exit 1 and no marker; check non-zero and
\* in-place c non-zero gives the exit status c stands for and no marker.
C2_ExitCodeContract ==
    pc = "done" =>
        /\ (CheckReturned /\ check_res.code = IntStatus(0)) =>
              /\ exit_code = Exited(0)
              /\ marker_written = marker_arg
              /\ Events("mkdtemp") = {} /\ Events("copy") = {}
              /\ ToolCalls("--in-place") = {}
        /\ (CheckFailedStatus /\ InPlaceReturned /\ fmt_res.code = IntStatus(0)) =>
              /\ exit_code = Exited(1)
              /\ ~marker_written
        /\ (CheckFailedStatus /\ InPlaceReturned /\ fmt_res.code # IntStatus(0)) =>
              /\ exit_code = Exited(ExitStatus(fmt_res.code))
              /\ ~marker_written

\* C2 witness: the in-place run failed with status 2 after a check that
\* failed with status 1, and the process ended with status 2.
C2_Witness ==
    /\ pc = "done"
    /\ check_res.code = IntStatus(1)
    /\ InPlaceReturned /\ fmt_res.code = IntStatus(2)
    /\ exit_code = Exited(2)

\* C3: whenever the check run reports a non-zero status and the in-place run
\* returns 0, at least one source contributes a diff to the error stream.
C3_DiagnosticsNonEmpty ==
    (pc = "done" /\ CheckFailedStatus /\ InPlaceReturned /\ fmt_res.code = IntStatus(0))
        => Events("print_diff") # {}

\* C6: the temporary directory is created only after the check run reported
\* a non-zero status, and it is gone when the run ends, whichever way it ends.
C6_TempDirScoped ==
    /\ (temp_exists \/ Events("mkdtemp") # {}) => CheckFailedStatus
    /\ pc = "done" =>
          /\ ~temp_exists
          /\ \A loc \in DOMAIN fs : ~IsPrefix(Resolve(TempRoot), loc)
          /\ \A i \in Events("mkdtemp") : \E j \in Events("rmtree") : j > i

\* C6 witness: a run that created the directory, staged a file into it and
\* then ended with an uncaught exception.
C6_Witness ==
    /\ pc = "done"
    /\ Events("mkdtemp") # {} /\ Events("copy") # {} /\ Events("traceback") # {}
    /\ \E loc \in written : IsPrefix(Resolve(TempRoot), loc)

\* C7: the steps of a run happen in a fixed order: the check run ends and,
\* when it failed, its output is printed before the temporary directory is
\* made or a file is copied; every source is copied before the in-place run
\* starts; the in-place run ends before any diff is computed, and no diff is
\* computed when the in-place run did not return 0.
C7_StepOrder ==
    /\ \A i \in Events("mkdtemp") \cup Events("copy") :
          /\ \E j \in ToolCalls("--check") : j < i
          /\ \E j \in Events("print_check_output") : j < i
    /\ \A i \in ToolCalls("--in-place") :
          /\ \A k \in DOMAIN srcs : \E j \in Events("copy") : j < i /\ log[j].arg = srcs[k]
          /\ \A j \in Events("copy") : j < i
    /\ \A i \in Events("generate_diff") :
          /\ \E j \in ToolCalls("--in-place") : j < i
          /\ InPlaceReturned /\ fmt_res.code = IntStatus(0)
    /\ pc \in {"staged", "formatted"} =>
          \A k \in DOMAIN srcs : \E j \in Events("copy") : log[j].arg = srcs[k]

\* C7 witness: a run of two sources that went through every step and
\* printed a diff.
C7_Witness ==
    /\ pc = "done"
    /\ Len(srcs) = 2 /\ srcs[1] # srcs[2]
    /\ Events("print_diff") # {}
    /\ Cardinality(Events("copy")) = 2

\* The "from" files of the diffs a log printed, in order.
RECURSIVE PrintedDiffs(_, _)
PrintedDiffs(l, i) ==
    IF i > Len(l) THEN <<>>
    ELSE (IF l[i].ev = "print_diff" THEN <<l[i].arg.fromfile>> ELSE <<>>)
         \o PrintedDiffs(l, i + 1)

\* The text of the staged copy of a source: of the file the in-place run
\* rewrote for its entry of the staging map.
StagedText(src) ==
    LET at == Targets(fs, DictGet(path_map, src))
    IN  IF at = {} THEN <<>> ELSE fs[CHOOSE loc \in at : TRUE]

LinesDiffer(src) ==
    splitlines(StagedText(src)) # splitlines(fs0[Resolve(src)])

\* The sources of the staging map, in its order, whose lines differ.
RECURSIVE DifferingKeys(_, _)
DifferingKeys(m, i) ==
    IF i > Len(m) THEN <<>>
    ELSE (IF LinesDiffer(m[i][1]) THEN <<m[i][1]>> ELSE <<>>) \o DifferingKeys(m, i + 1)

\* C9: after a successful in-place run a diff is printed for a source if and
\* only if the lines of its reformatted staged copy differ from the lines of
\* the original, and the diffs come in the order of the staging map.
C9_DiffIffLinesDiffer ==
    [][(pc = "formatted" /\ fmt_res.code = IntStatus(0))
          => PrintedDiffs(log', 1) = DifferingKeys(path_map, 1)]_vars

-----------------------------------------------------------------------------
(* copy_to_temp_preserving_paths on its own                                 *)

\* The function is called with a list of sources, each a regular file where
\* it can be one, and an existing, empty temporary directory.
InitStage ==
    /\ srcs \in SrcLists(StagePaths)
    /\ fs = [loc \in FileLocs(srcs) |-> <<"a">>]
    /\ fmt = "same"
    /\ marker_arg = FALSE
    /\ pc = "stage_start"
    /\ temp_exists = TRUE
    /\ InitCommon

StageCall(raises) ==
    /\ pc = "stage_start"
    /\ LET st == copy_to_temp_preserving_paths(srcs, TempRoot, fs)
       IN  /\ st.raised = raises
           /\ pc' = (IF raises THEN "stage_raised" ELSE "stage_returned")
           /\ path_map' = (IF raises THEN <<>> ELSE st.path_map)
           /\ fs' = st.fs
           /\ written' = st.written
           /\ log' = CopyEvents(st.copied)
    /\ UNCHANGED <<srcs, marker_arg, fs0, fmt, tool_fault, check_res, fmt_res,
                   temp_exists, exit_code, marker_written, lint_res, tool_sig>>

StageReturns == StageCall(FALSE)
StageRaises == StageCall(TRUE)

NextStage == StageReturns \/ StageRaises

SpecStage == InitStage /\ [][NextStage]_vars

StageEnded == pc \in {"stage_returned", "stage_raised"}
AllSourcesAreFiles == \A i \in DOMAIN srcs : IsFile(fs0, srcs[i])

\* C5: for every non-empty list of sources the function returns a staging
\* map in which every source has exactly one staged copy, a file inside the
\* temporary root, at root/<file name> for a single source and at
\* root/<path relative to the common ancestor> for several.
C5_StagingMapShape ==
    (StageEnded /\ AllSourcesAreFiles) =>
        /\ pc = "stage_returned"
        /\ \A i \in DOMAIN srcs :
              /\ Cardinality({j \in DOMAIN path_map : path_map[j][1] = srcs[i]}) = 1
              /\ LET staged == DictGet(path_map, srcs[i])
                 IN  /\ InsideTemp(staged)
                     /\ IsFile(fs, staged)
                     /\ IF Len(srcs) = 1
                        THEN staged = Join(TempRoot, Path("", <<Name(srcs[i])>>))
                        ELSE /\ CanRelativeTo(srcs[i], commonpath(srcs))
                             /\ staged = Join(TempRoot, relative_to(srcs[i], commonpath(srcs)))

\* A source whose path relative to the common ancestor cannot be computed.
NoRelativePath(i) ==
    CommonPathRaises(srcs) \/ ~CanRelativeTo(srcs[i], commonpath(srcs))

\* C10: when several sources are staged and the relative path of one cannot
\* be computed against the common ancestor, the function stages that file at
\* root/<its last two segments> and returns a map covering every input.
C10_FallbackInsteadOfAbort ==
    (StageEnded /\ AllSourcesAreFiles /\ Len(srcs) > 1
        /\ \E i \in DOMAIN srcs : NoRelativePath(i)) =>
        /\ pc = "stage_returned"
        /\ \A i \in DOMAIN srcs :
              /\ srcs[i] \in DictKeys(path_map)
              /\ NoRelativePath(i) =>
                    DictGet(path_map, srcs[i])
                        = Join(TempRoot, Path("", LastTwo(srcs[i].parts)))

-----------------------------------------------------------------------------
(* linter.main                                                              *)

InitLint ==
    /\ srcs \in SrcLists(MainPaths)
    /\ fs = [loc \in FileLocs(srcs) |-> <<"a">>]
    /\ fmt = "same"
    /\ marker_arg \in BOOLEAN
    /\ pc = "lint_start"
    /\ temp_exists = FALSE
    /\ InitCommon

\* Lines 144-147: run_lint(args.config, args.srcs).  The lint tool reads its
\* sources and ends any way it likes.
LintRun ==
    /\ pc = "lint_start"
    /\ \E sig \in Signals :
        /\ tool_sig' = sig
        /\ LET res  == run_lint(sig, "lint_output")
               call == Event("tool", tool_args("tclint", srcs, ""))
           IN  IF res.raised
               THEN /\ Uncaught(<<call>>, fs)
                    /\ UNCHANGED lint_res
               ELSE /\ pc' = "linted"
                    /\ lint_res' = res
                    /\ log' = Append(log, call)
                    /\ UNCHANGED <<fs, temp_exists, exit_code>>
    /\ UNCHANGED <<srcs, marker_arg, fs0, fmt, tool_fault, check_res, fmt_res,
                   path_map, written, marker_written>>

\* LintFailed as it would be if it ended with the fixed status 1.
LintFailed_ExitsOne ==
    /\ pc = "linted"
    /\ Truthy(lint_res.code)
    /\ SysExit(IntStatus(1), <<Event("print_lint_output", lint_res.output)>>, fs)
    /\ UNCHANGED <<srcs, marker_arg, fs0, fmt, tool_fault, check_res, fmt_res,
                   path_map, written, marker_written, lint_res, tool_sig>>

\* Lines 148-150: lint_code is non-zero: print the output and exit with it.
LintFailed ==
    /\ pc = "linted"
    /\ Truthy(lint_res.code)
    /\ SysExit(lint_res.code, <<Event("print_lint_output", lint_res.output)>>, fs)
    /\ UNCHANGED <<srcs, marker_arg, fs0, fmt, tool_fault, check_res, fmt_res,
                   path_map, written, marker_written, lint_res, tool_sig>>

\* Lines 153-155: lint_code is 0: touch the marker, if asked to; main
\* returns and the process ends with status 0.
LintPassed ==
    /\ pc = "linted"
    /\ ~Truthy(lint_res.code)
    /\ marker_written' = marker_arg
    /\ SysExit(NoneStatus,
               IF marker_arg THEN <<Event("write_marker", <<>>)>> ELSE <<>>, fs)
    /\ UNCHANGED <<srcs, marker_arg, fs0, fmt, tool_fault, check_res, fmt_res,
                   path_map, written, lint_res, tool_sig>>

NextLint == LintRun \/ LintFailed \/ LintPassed

SpecLint == InitLint /\ [][NextLint]_vars

\* The status the tool itself ended with.
ToolStatus == ExitStatus(tool_sig.status)
LintReturned == tool_sig.how \in {"return", "exit"}

\* C4: in the lint action, a non-zero status of the lint tool puts its
\* captured output on the error stream, ends the process with that status
\* and leaves the marker unwritten; a zero status prints nothing of the
\* tool's output, writes the marker when --marker was given and ends the
\* process with status 0.  The marker is written only on success.
C4_LintOutcome ==
    /\ pc = "done" =>
          /\ (LintReturned /\ ToolStatus # 0) =>
                /\ \E i \in Events("print_lint_output") : log[i].arg = "lint_output"
                /\ exit_code = Exited(ToolStatus)
                /\ ~marker_written
          /\ (LintReturned /\ ToolStatus = 0) =>
                /\ Events("print_lint_output") = {}
                /\ marker_written = marker_arg
                /\ exit_code = Exited(0)
    /\ marker_written => (pc = "done" /\ LintReturned /\ ToolStatus = 0)

\* C4 witness: the lint tool ended with sys.exit(2); the output is on the
\* error stream and the process ended with status 2.
C4_Witness ==
    /\ pc = "done"
    /\ tool_sig = Signal("exit", IntStatus(2))
    /\ Events("print_lint_output") # {}
    /\ exit_code = Exited(2)
    /\ marker_arg /\ ~marker_written

-----------------------------------------------------------------------------
(* The Tool Invoker on its own                                              *)

InitInvoke ==
    /\ srcs \in SrcLists(MainPaths)
    /\ fs = [loc \in FileLocs(srcs) |-> <<"a">>]
    /\ fmt = "same"
    /\ marker_arg = FALSE
    /\ pc = "invoke_start"
    /\ temp_exists = FALSE
    /\ InitCommon

\* run_format(config, srcs, [flag]) against a tool that ends with sig.
InvokeFormat ==
    /\ pc = "invoke_start"
    /\ \E sig \in Signals, flag \in {"--check", "--in-place"} :
        /\ tool_sig' = sig
        /\ fmt_res' = run_format(sig, "output")
        /\ log' = <<Event("tool", tool_args("tclfmt", srcs, flag))>>
    /\ pc' = "invoked_format"
    /\ UNCHANGED <<srcs, marker_arg, fs, fs0, fmt, tool_fault, check_res,
                   temp_exists, path_map, written, exit_code, marker_written, lint_res>>

\* run_lint(config, srcs) against a tool that ends with sig.
InvokeLint ==
    /\ pc = "invoke_start"
    /\ \E sig \in Signals :
        /\ tool_sig' = sig
        /\ lint_res' = run_lint(sig, "output")
        /\ log' = <<Event("tool", tool_args("tclint", srcs, ""))>>
    /\ pc' = "invoked_lint"
    /\ UNCHANGED <<srcs, marker_arg, fs, fs0, fmt, tool_fault, check_res, fmt_res,
                   temp_exists, path_map, written, exit_code, marker_written>>

NextInvoke == InvokeFormat \/ InvokeLint

SpecInvoke == InitInvoke /\ [][NextInvoke]_vars

\* The result is the integer the tool's status stands for: the status
\* itself when it is an integer, 0 when it is None.
Normalized(res) ==
    ~res.raised =>
        /\ res.code.kind = "int"
        /\ tool_sig.status.kind = "none" => res.code = IntStatus(0)
        /\ tool_sig.status.kind = "int" => res.code = tool_sig.status

\* C8: run_format and run_lint turn both ways a tool can end into the same
\* integer status_code: a returned s and a SystemExit carrying s give s, a
\* returned None and a SystemExit without a status give 0.
C8_StatusNormalized ==
    /\ pc = "invoked_format" => Normalized(fmt_res)
    /\ pc = "invoked_lint" => Normalized(lint_res)
=============================================================================
